---- MODULE Spec2Model ----
(***************************************************************************)
(* qlipper/postprocess/plot_mee.py: the two plotting entry points          *)
(*   plot_elements_mee   (target synthesis, reference shift, frame title)  *)
(*   plot_trajectory_mee (orbit count, index breakpoints, coloured arcs)   *)
(* Each call is a straight-line state machine; SpecE runs the first,       *)
(* SpecT the second.                                                       *)
(***************************************************************************)
EXTENDS Integers, Sequences, FiniteSets, TLC

VARIABLES
    \* ---- plot_elements_mee
    pc,             \* position in plot_elements_mee
    t,              \* time array (argument)
    y_in,           \* MEE array as passed by the caller
    steering_law,   \* cfg.steering_law
    wrt_moon,       \* argument
    cfg_y_target,   \* cfg.y_target, 5 numbers
    singular_out,   \* what the converter yields for a singular state
    targeting_moon, \* local
    moon_state,     \* local: one row per evaluated time sample
    ephem_calls,    \* number of evaluator calls per time sample
    cart_state,     \* local
    rel_state,      \* local
    y,              \* the local name y: the series that is plotted
    shifted,        \* y was rebound to the Moon-centred series
    y_target,       \* local
    col,            \* loop variable i of "for i in range(5)"
    tof_days,       \* local
    titlestr,       \* local
    \* ---- plot_trajectory_mee
    tpc,            \* position in plot_trajectory_mee
    mee_L,          \* mee[-1, -1], in units of 2*pi / TWO_PI
    plot_kwargs,    \* argument
    cart,           \* dense Cartesian path
    n_orbits,       \* local
    idx_breakpoints,\* local
    seg_i,          \* loop variable i of "for i in range(NUM_SEGMENTS)"
    segments,       \* the ax.plot calls made by the loop, in order
    moon_overlay,   \* the Moon's path was drawn
    cbar_labels     \* colour-bar tick labels

evars == <<pc, t, y_in, steering_law, wrt_moon, cfg_y_target, singular_out,
           targeting_moon, moon_state, ephem_calls, cart_state, rel_state, y,
           shifted, y_target, col, tof_days, titlestr>>
tvars == <<tpc, mee_L, plot_kwargs, cart, n_orbits, idx_breakpoints, seg_i,
           segments, moon_overlay, cbar_labels>>
vars == <<evars, tvars>>

Min(a, b) == IF a < b THEN a ELSE b
Max(a, b) == IF a > b THEN a ELSE b

(***************************************************************************)
(* Bounds                                                                  *)
(***************************************************************************)
MaxM == 53        \* longest dense path
MaxL == 9         \* largest final true longitude, in units of 2*pi / TWO_PI
MaxN == 2         \* longest time / state array
CbarTicks == 2    \* the colour bar is labelled at x = k / CbarTicks

(***************************************************************************)
(* plot_trajectory_mee                                                     *)
(***************************************************************************)
NUM_SEGMENTS == 50

\* 2 * np.pi, as the number of longitude units in one revolution
TWO_PI == 4

\* mee[-1, -1] // (2 * np.pi): floor division
NOrbitsNoFloor(L) == IF L % TWO_PI = 0 THEN L \div TWO_PI ELSE (L \div TWO_PI) + 1
NOrbits(L) == L \div TWO_PI

\* np.linspace(0, M, S + 1, dtype=int)[i]: i * (M / S) truncated; the last
\* sample is the stop value itself.  (For M < 58 the double product
\* i * (M / 50) truncates to the floor of the exact quotient.)
LinspaceIntShort(M, S, i) == (i * (M - 1)) \div S
LinspaceInt(M, S, i) == IF i = S THEN M ELSE (i * M) \div S

\* s[a:b] for 0 <= a, 0 <= b on a sequence (0-based, stop exclusive, clipped)
SliceNoOverlap(s, a, b) ==
    LET lo == Min(a, Len(s))
        hi == Min(b - 1, Len(s))
    IN  [k \in 1..Max(hi - lo, 0) |-> s[lo + k]]
Slice(s, a, b) ==
    LET lo == Min(a, Len(s))
        hi == Min(b, Len(s))
    IN  [k \in 1..Max(hi - lo, 0) |-> s[lo + k]]

\* cm(i / NUM_SEGMENTS): the gradient "turbo" evaluated at the position i / S
Cm(i, S) == [name |-> "turbo", num |-> i, den |-> S]

\* default_plot_kwargs | plot_kwargs: the right operand wins
MergeLeftWins(d, e) ==
    [k \in (DOMAIN d) \cup (DOMAIN e) |-> IF k \in DOMAIN d THEN d[k] ELSE e[k]]
Merge(d, e) ==
    [k \in (DOMAIN d) \cup (DOMAIN e) |-> IF k \in DOMAIN e THEN e[k] ELSE d[k]]

DefaultPlotKwargs(i) == [linewidth |-> 1, color |-> Cm(i, NUM_SEGMENTS)]
ActualPlotKwargs(i, kw) == Merge(DefaultPlotKwargs(i), kw)

\* f"{x * n_orbits:.0f}" at x = k / CbarTicks: round half to even
RoundHalfEven(a, b) ==
    LET q == a \div b
        r == a % b
    IN  IF 2 * r < b THEN q
        ELSE IF 2 * r > b THEN q + 1
        ELSE IF q % 2 = 0 THEN q ELSE q + 1
CbarLabel(k, n) == RoundHalfEven(k * n, CbarTicks)

NoKwargs == [k \in {} |-> 0]
KwargsChoices ==
    { NoKwargs,
      [k \in {"color"} |-> [name |-> "k", num |-> 0, den |-> 1]],
      [k \in {"linewidth"} |-> 2] }

\* two different dense paths of the same length: point j of path b
PathBases == {0, 100}
PathOf(b, M) == [j \in 1..M |-> b + j - 1]

EIdle ==
    /\ pc = "idle" /\ t = <<>> /\ y_in = <<>> /\ steering_law = "" /\ wrt_moon = FALSE
    /\ cfg_y_target = <<>> /\ singular_out = <<"nan">> /\ targeting_moon = FALSE
    /\ moon_state = <<>> /\ ephem_calls = <<>> /\ cart_state = <<>> /\ rel_state = <<>>
    /\ y = <<>> /\ shifted = FALSE /\ y_target = <<>> /\ col = 0 /\ tof_days = <<>>
    /\ titlestr = ""

TInitLocals ==
    /\ cart = <<>> /\ n_orbits = 0 /\ idx_breakpoints = <<>> /\ seg_i = 0
    /\ segments = <<>> /\ moon_overlay = FALSE /\ cbar_labels = <<>>

InitT ==
    /\ EIdle
    /\ tpc = "orbits"
    /\ mee_L \in 0..MaxL
    /\ plot_kwargs \in KwargsChoices
    /\ TInitLocals

\* line 135
CountOrbits ==
    /\ tpc = "orbits"
    /\ n_orbits' = NOrbits(mee_L)
    /\ tpc' = "interp"
    /\ UNCHANGED <<mee_L, plot_kwargs, cart, idx_breakpoints, seg_i, segments,
                   moon_overlay, cbar_labels>>
    /\ UNCHANGED evars

\* lines 138-139: the dense path returned by the interpolator and converter
Interpolate ==
    /\ tpc = "interp"
    /\ \E M \in 1..MaxM, b \in PathBases : cart' = PathOf(b, M)
    /\ tpc' = "breaks"
    /\ UNCHANGED <<mee_L, plot_kwargs, n_orbits, idx_breakpoints, seg_i, segments,
                   moon_overlay, cbar_labels>>
    /\ UNCHANGED evars

\* lines 154-157
Breakpoints ==
    /\ tpc = "breaks"
    /\ idx_breakpoints' =
         [k \in 1..(NUM_SEGMENTS + 1) |-> LinspaceInt(Len(cart), NUM_SEGMENTS, k - 1)]
    /\ seg_i' = 0
    /\ tpc' = "loop"
    /\ UNCHANGED <<mee_L, plot_kwargs, cart, n_orbits, segments, moon_overlay,
                   cbar_labels>>
    /\ UNCHANGED evars

\* slice(idx_breakpoints[i], idx_breakpoints[i + 1] + 1)
PlotSliceLate(i) == Slice(cart, idx_breakpoints[i + 1] + 1, idx_breakpoints[i + 2] + 1)
PlotSlice(i) == Slice(cart, idx_breakpoints[i + 1], idx_breakpoints[i + 2] + 1)

\* lines 159-171: one iteration of the loop
DrawSegment ==
    /\ tpc = "loop"
    /\ seg_i < NUM_SEGMENTS
    /\ segments' = Append(segments,
                     [pts |-> PlotSlice(seg_i),
                      kwargs |-> ActualPlotKwargs(seg_i, plot_kwargs)])
    /\ seg_i' = seg_i + 1
    /\ tpc' = IF seg_i + 1 = NUM_SEGMENTS THEN "moon" ELSE "loop"
    /\ UNCHANGED <<mee_L, plot_kwargs, cart, n_orbits, idx_breakpoints, moon_overlay,
                   cbar_labels>>
    /\ UNCHANGED evars

\* lines 177-189: "moon_gravity" in cfg.perturbations
PlotMoon ==
    /\ tpc = "moon"
    /\ \E has_moon \in BOOLEAN : moon_overlay' = has_moon
    /\ tpc' = "colorbar"
    /\ UNCHANGED <<mee_L, plot_kwargs, cart, n_orbits, idx_breakpoints, seg_i,
                   segments, cbar_labels>>
    /\ UNCHANGED evars

\* lines 191-201
Colorbar ==
    /\ tpc = "colorbar"
    /\ cbar_labels' = [k \in 1..(CbarTicks + 1) |-> CbarLabel(k - 1, n_orbits)]
    /\ tpc' = "done"
    /\ UNCHANGED <<mee_L, plot_kwargs, cart, n_orbits, idx_breakpoints, seg_i,
                   segments, moon_overlay>>
    /\ UNCHANGED evars

NextT ==
    \/ CountOrbits
    \/ Interpolate
    \/ Breakpoints
    \/ DrawSegment
    \/ PlotMoon
    \/ Colorbar

SpecT == InitT /\ [][NextT]_vars

(***************************************************************************)
(* plot_elements_mee                                                       *)
(*                                                                         *)
(* Numbers are terms: <<"num", n>>, <<"nan">>, element k of a converted    *)
(* row (<<"cart", k, mu, row>>, <<"mee", k, mu, row>>) and differences of  *)
(* such (<<"sub", a, b>>).  A row is a 6-tuple of terms.                   *)
(***************************************************************************)
MU_EARTH == "MU_EARTH"
MU_MOON == "MU_MOON"

Num(n) == <<"num", n>>
NaN == <<"nan">>
IsNum(a) == a[1] = "num"
IsNaN(a) == a[1] = "nan"

\* a - b on scalars
Sub(a, b) ==
    IF IsNaN(a) \/ IsNaN(b) THEN NaN
    ELSE IF IsNum(a) /\ IsNum(b) THEN Num(a[2] - b[2])
    ELSE IF a = b THEN Num(0)
    ELSE <<"sub", a, b>>

\* row - row, element by element
SubRow(a, b) == [k \in 1..6 |-> Sub(a[k], b[k])]

\* the image of a row under a conversion, element by element
Image(tag, r, mu) == [k \in 1..6 |-> <<tag, k - 1, mu, r>>]
IsImage(tag, r, mu) ==
    /\ r[1][1] = tag
    /\ r = Image(tag, r[1][4], mu)

\* a Cartesian state with zero angular momentum r x v (the zero state among
\* them): the conversion to elements is singular
IsSingular(c) ==
    /\ \A k \in 1..6 : IsNum(c[k])
    /\ c[2][2] * c[6][2] - c[3][2] * c[5][2] = 0
    /\ c[3][2] * c[4][2] - c[1][2] * c[6][2] = 0
    /\ c[1][2] * c[5][2] - c[2][2] * c[4][2] = 0

\* qlipper.converters: one row of batch_mee_to_cartesian(y, mu)
MeeToCartesian(m, mu) ==
    IF IsImage("mee", m, mu) THEN m[1][4] ELSE Image("cart", m, mu)

\* qlipper.converters: one row of batch_cartesian_to_mee(c, mu); out is what a
\* singular state converts to
CartesianToMee(c, mu, out) ==
    IF IsSingular(c) THEN [k \in 1..6 |-> out]
    ELSE IF IsImage("cart", c, mu) THEN c[1][4]
    ELSE Image("mee", c, mu)

\* params.moon_ephem.evaluate(tt): the Moon's state about the Earth
Evaluate(tt) == <<Num(4), Num(tt \div 43200), Num(0), Num(0), Num(1), Num(0)>>

\* the time of sample n
TimeAt(n) == (n - 1) * 43200

\* the rows a caller passes: an orbit of its own, or the Moon's own elements
OrbitRow(n) == <<Num(2), Num(0), Num(0), Num(0), Num(0), Num(n)>>
MoonRow(n, out) == CartesianToMee(Evaluate(TimeAt(n)), MU_EARTH, out)
InputRow(kind, n, out) == IF kind = "moon" THEN MoonRow(n, out) ELSE OrbitRow(n)

UndefOutcomes == { NaN, Num(0), Num(1) }
TargetChoices == { <<Num(1), Num(0), Num(0), Num(0), Num(0)>>,
                   <<Num(3), Num(1), Num(0), Num(2), Num(0)>> }

TIdle ==
    /\ tpc = "idle" /\ mee_L = 0 /\ plot_kwargs = <<>>
    /\ TInitLocals

InitE ==
    /\ TIdle
    /\ pc = "mode"
    /\ singular_out \in UndefOutcomes
    /\ \E nt \in 1..MaxN : t = [n \in 1..nt |-> TimeAt(n)]
    /\ \E ny \in 1..MaxN : \E kinds \in [1..ny -> {"orbit", "moon"}] :
          y_in = [n \in 1..ny |-> InputRow(kinds[n], n, singular_out)]
    /\ steering_law \in {"bbq_law", "q_law"}
    /\ wrt_moon \in BOOLEAN
    /\ cfg_y_target \in TargetChoices
    /\ y = y_in
    /\ targeting_moon = FALSE /\ moon_state = <<>> /\ cart_state = <<>>
    /\ ephem_calls = [n \in 1..Len(t) |-> 0]
    /\ rel_state = <<>> /\ shifted = FALSE /\ y_target = <<>> /\ col = 0
    /\ tof_days = <<>> /\ titlestr = ""

\* cfg.steering_law == "bbq_law"
TargetingMoon(law) == law = "bbq_law"

\* lines 47-48
SelectMode ==
    /\ pc = "mode"
    /\ targeting_moon' = TargetingMoon(steering_law)
    /\ pc' = IF targeting_moon' THEN "ephem" ELSE "zeros"
    /\ UNCHANGED <<t, y_in, steering_law, wrt_moon, cfg_y_target, singular_out,
                   moon_state, ephem_calls, cart_state, rel_state, y, shifted,
                   y_target, col, tof_days, titlestr>>
    /\ UNCHANGED tvars

\* line 49: jax.vmap(params.moon_ephem.evaluate)(t), one sample at a time
EvalEphem ==
    /\ pc = "ephem"
    /\ LET n == Len(moon_state) + 1 IN
         /\ n <= Len(t)
         /\ moon_state' = Append(moon_state, Evaluate(t[n]))
         /\ ephem_calls' = [ephem_calls EXCEPT ![n] = @ + 1]
         /\ pc' = IF n = Len(t) THEN "tocart" ELSE "ephem"
    /\ UNCHANGED <<t, y_in, steering_law, wrt_moon, cfg_y_target, singular_out,
                   targeting_moon, cart_state, rel_state, y, shifted, y_target,
                   col, tof_days, titlestr>>
    /\ UNCHANGED tvars

\* lines 50-52
ToCart ==
    /\ pc = "tocart"
    /\ cart_state' = [n \in 1..Len(y) |-> MeeToCartesian(y[n], MU_EARTH)]
    /\ pc' = IF wrt_moon THEN "shift" ELSE "moving"
    /\ UNCHANGED <<t, y_in, steering_law, wrt_moon, cfg_y_target, singular_out,
                   targeting_moon, moon_state, ephem_calls, rel_state, y, shifted,
                   y_target, col, tof_days, titlestr>>
    /\ UNCHANGED tvars

\* array broadcasting of (a, 6) against (b, 6)
Broadcastable(a, b) == a = b \/ a = 1 \/ b = 1
BroadcastLen(a, b) == IF a = 1 THEN b ELSE a
BRow(s, n) == IF Len(s) = 1 THEN s[1] ELSE s[n]

\* lines 55-56 for one row: convert about the Moon, then y[:, 0] - 1.0
ShiftRowNoOffset(rel, out) == CartesianToMee(rel, MU_MOON, out)
ShiftRowAllColumns(rel, out) ==
    LET m == CartesianToMee(rel, MU_MOON, out)
    IN  [k \in 1..6 |-> Sub(m[k], Num(1))]
ShiftRow(rel, out) ==
    LET m == CartesianToMee(rel, MU_MOON, out)
    IN  [k \in 1..6 |-> IF k = 1 THEN Sub(m[1], Num(1)) ELSE m[k]]

\* lines 54-56; the subtraction raises when the shapes do not broadcast
Shift ==
    /\ pc = "shift"
    /\ IF Broadcastable(Len(cart_state), Len(moon_state))
       THEN /\ rel_state' =
                 [n \in 1..BroadcastLen(Len(cart_state), Len(moon_state)) |->
                    SubRow(BRow(cart_state, n), BRow(moon_state, n))]
            /\ y' = [n \in 1..Len(rel_state') |-> ShiftRow(rel_state'[n], singular_out)]
            /\ shifted' = TRUE
            /\ pc' = "zeros"
       ELSE /\ pc' = "raised"
            /\ UNCHANGED <<rel_state, y, shifted>>
    /\ UNCHANGED <<t, y_in, steering_law, wrt_moon, cfg_y_target, singular_out,
                   targeting_moon, moon_state, ephem_calls, cart_state, y_target,
                   col, tof_days, titlestr>>
    /\ UNCHANGED tvars

\* line 63
MovingTargetOfTrajectory == [n \in 1..Len(cart_state) |->
                                CartesianToMee(cart_state[n], MU_EARTH, singular_out)]
MovingTargetRows == [n \in 1..Len(moon_state) |->
                        CartesianToMee(moon_state[n], MU_EARTH, singular_out)]

MovingTarget ==
    /\ pc = "moving"
    /\ y_target' = MovingTargetRows
    /\ pc' = "plot"
    /\ UNCHANGED <<t, y_in, steering_law, wrt_moon, cfg_y_target, singular_out,
                   targeting_moon, moon_state, ephem_calls, cart_state, rel_state,
                   y, shifted, col, tof_days, titlestr>>
    /\ UNCHANGED tvars

\* lines 58 and 66: jnp.zeros_like(y)
ZerosTarget ==
    /\ pc = "zeros"
    /\ y_target' = [n \in 1..Len(y) |-> [k \in 1..6 |-> Num(0)]]
    /\ col' = 0
    /\ pc' = "fill"
    /\ UNCHANGED <<t, y_in, steering_law, wrt_moon, cfg_y_target, singular_out,
                   targeting_moon, moon_state, ephem_calls, cart_state, rel_state,
                   y, shifted, tof_days, titlestr>>
    /\ UNCHANGED tvars

\* y_target.at[:, i].set(cfg.y_target[i])
SetColumn(yt, i, v) == [n \in 1..Len(yt) |-> [yt[n] EXCEPT ![i + 1] = v]]

\* lines 59-60 and 67-68: one iteration of "for i in range(5)"
FillTarget ==
    /\ pc = "fill"
    /\ col < 5
    /\ y_target' = SetColumn(y_target, col, cfg_y_target[col + 1])
    /\ col' = col + 1
    /\ pc' = IF col + 1 = 5 THEN "plot" ELSE "fill"
    /\ UNCHANGED <<t, y_in, steering_law, wrt_moon, cfg_y_target, singular_out,
                   targeting_moon, moon_state, ephem_calls, cart_state, rel_state,
                   y, shifted, tof_days, titlestr>>
    /\ UNCHANGED tvars

\* lines 101-103
TitleOf(wrt) ==
    "Modified Equinoctial Elements" \o (IF wrt THEN " (Selenocentric)" ELSE " (Geocentric)")

\* lines 70-105; axs[0].plot(tof_days, y[:, 0]) raises when the two lengths
\* differ
Plot ==
    /\ pc = "plot"
    /\ tof_days' = [n \in 1..Len(t) |-> <<t[n], 86400>>]
    /\ IF Len(t) = Len(y) /\ Len(t) = Len(y_target)
       THEN /\ titlestr' = TitleOf(wrt_moon)
            /\ pc' = "done"
       ELSE /\ pc' = "raised"
            /\ UNCHANGED titlestr
    /\ UNCHANGED <<t, y_in, steering_law, wrt_moon, cfg_y_target, singular_out,
                   targeting_moon, moon_state, ephem_calls, cart_state, rel_state,
                   y, shifted, y_target, col>>
    /\ UNCHANGED tvars

NextE ==
    \/ SelectMode
    \/ EvalEphem
    \/ ToCart
    \/ Shift
    \/ MovingTarget
    \/ ZerosTarget
    \/ FillTarget
    \/ Plot

SpecE == InitE /\ [][NextE]_vars

(***************************************************************************)
(* Properties of plot_trajectory_mee                                       *)
(***************************************************************************)
Range(s) == { s[k] : k \in DOMAIN s }
LoopDone == tpc \in {"moon", "colorbar", "done"}
M_ == Len(cart)
\* 0-based accessors
Bp(i) == idx_breakpoints[i + 1]
Seg(i) == segments[i + 1].pts
\* the points of cart with 0-based indices a..b
Points(a, b) == [k \in 1..Max(b - a + 1, 0) |-> cart[a + k]]

RECURSIVE Rejoin(_)
\* segments 0..n-1 concatenated, the first point of every segment after the
\* first dropped
Rejoin(n) ==
    IF n = 0 THEN <<>>
    ELSE IF n = 1 THEN Seg(0)
    ELSE Rejoin(n - 1) \o Tail(Seg(n - 1))

RECURSIVE SumLen(_)
SumLen(n) == IF n = 0 THEN 0 ELSE SumLen(n - 1) + Len(Seg(n - 1))

\* C1: once the loop has run, the S segments taken in order, with the first
\* point of every segment after the first dropped, are the dense path itself:
\* every point once, in order, none added (also for M < S).
C1_Coverage ==
    LoopDone => /\ \A i \in 0..(NUM_SEGMENTS - 1) : Len(Seg(i)) >= 1
                /\ Rejoin(NUM_SEGMENTS) = cart
C1_Witness ==
    /\ LoopDone
    /\ M_ > 1 /\ M_ < NUM_SEGMENTS
    /\ Rejoin(NUM_SEGMENTS) = cart

\* C2: the segment lengths sum to M + (S - 1); consecutive segments share
\* exactly one point, the one at breakpoint i+1; a point whose index is not a
\* breakpoint lies in exactly one segment.
C2_SegmentLengths ==
    LoopDone =>
      /\ SumLen(NUM_SEGMENTS) = M_ + (NUM_SEGMENTS - 1)
      /\ \A i \in 0..(NUM_SEGMENTS - 2) :
            Range(Seg(i)) \cap Range(Seg(i + 1)) = { cart[Bp(i + 1) + 1] }
      /\ \A j \in 0..(M_ - 1) :
            (\A i \in 0..NUM_SEGMENTS : Bp(i) # j)
              => Cardinality({ i \in 0..(NUM_SEGMENTS - 1) :
                                 cart[j + 1] \in Range(Seg(i)) }) = 1
C2_Witness ==
    /\ LoopDone
    /\ M_ > NUM_SEGMENTS
    /\ SumLen(NUM_SEGMENTS) = M_ + (NUM_SEGMENTS - 1)
    /\ \E j \in 0..(M_ - 1) : \A i \in 0..NUM_SEGMENTS : Bp(i) # j

\* C3 as stated: every segment i is exactly the points breakpoint[i] through
\* breakpoint[i+1], both included, and each such endpoint is an index of the
\* path.
C3_AsStated ==
    LoopDone =>
      \A i \in 0..(NUM_SEGMENTS - 1) :
         /\ 0 <= Bp(i) /\ Bp(i) <= M_ - 1
         /\ 0 <= Bp(i + 1) /\ Bp(i + 1) <= M_ - 1
         /\ Seg(i) = Points(Bp(i), Bp(i + 1))
\* C3 amended: breakpoint i is i*M/S truncated, for i = 0..S, so the last one
\* is M, one past the last index; segment i is the points breakpoint[i]
\* through min(breakpoint[i+1], M-1), and breakpoints 0..S-1 are indices of
\* the path.
C3_Endpoints ==
    LoopDone =>
      /\ \A i \in 0..NUM_SEGMENTS :
            /\ NUM_SEGMENTS * Bp(i) <= i * M_
            /\ i * M_ < NUM_SEGMENTS * (Bp(i) + 1)
      /\ Bp(NUM_SEGMENTS) = M_
      /\ \A i \in 0..(NUM_SEGMENTS - 1) :
            /\ 0 <= Bp(i) /\ Bp(i) <= M_ - 1
            /\ Seg(i) = Points(Bp(i), Min(Bp(i + 1), M_ - 1))
C3_Witness ==
    /\ LoopDone
    /\ M_ > NUM_SEGMENTS
    /\ Bp(NUM_SEGMENTS) = M_
    /\ Seg(NUM_SEGMENTS - 1) = Points(Bp(NUM_SEGMENTS - 1), M_ - 1)

C9_AsStated ==
    (tpc # "orbits") =>
       /\ n_orbits * TWO_PI = mee_L
       /\ (mee_L > 0 => n_orbits > 0)
\* C9 amended: the reported count is the final true longitude divided by 2*pi
\* and rounded down to a whole number (the complete revolutions in the final
\* longitude); the colour-bar label at x is x times that whole number, rounded
\* to an integer.
C9_OrbitCount ==
    /\ (tpc # "orbits") =>
          /\ n_orbits * TWO_PI <= mee_L
          /\ mee_L < (n_orbits + 1) * TWO_PI
    /\ (tpc = "done") =>
          /\ cbar_labels[1] = 0
          /\ cbar_labels[CbarTicks + 1] = n_orbits
          /\ \A k \in 0..CbarTicks :
                2 * CbarTicks * cbar_labels[k + 1] \in
                   (2 * k * n_orbits - CbarTicks)..(2 * k * n_orbits + CbarTicks)
C9_Witness ==
    /\ tpc = "done"
    /\ mee_L > TWO_PI
    /\ mee_L % TWO_PI # 0
    /\ n_orbits = 2

(***************************************************************************)
(* Properties of plot_elements_mee                                         *)
(***************************************************************************)
N_ == Len(t)
WellFormed == Len(t) = Len(y_in)
Bbq == steering_law = "bbq_law"
TargetBuilt == pc \in {"plot", "done"}
ShiftDone == pc \in {"zeros", "fill", "plot", "done"}
ZeroRow == [k \in 1..6 |-> Num(0)]
IsConstTarget ==
    /\ Len(y_target) = N_
    /\ \A n \in 1..N_ : \A k \in 1..5 : y_target[n][k] = cfg_y_target[k]
\* to_mee(to_cartesian(y[n], MU_EARTH) - ephemeris(t[n]), MU_MOON)
MoonCentred(n) ==
    CartesianToMee(SubRow(MeeToCartesian(y_in[n], MU_EARTH), Evaluate(t[n])),
                   MU_MOON, singular_out)

\* C4: for a history of N samples, the target is the constant cfg.y_target in
\* elements 0..4 of all N rows when the steering law is not "bbq_law" (the
\* evaluator is never called) and when it is "bbq_law" with wrt_moon; with
\* "bbq_law" and no wrt_moon, target row n is to_mee(ephemeris(t[n]), MU_EARTH).
C4_ModeSelection ==
    /\ ~Bbq => /\ moon_state = <<>>
               /\ \A n \in DOMAIN ephem_calls : ephem_calls[n] = 0
    /\ (WellFormed /\ TargetBuilt) =>
          /\ ~Bbq => IsConstTarget
          /\ (Bbq /\ wrt_moon) => IsConstTarget
          /\ (Bbq /\ ~wrt_moon) =>
                /\ Len(y_target) = N_
                /\ \A n \in 1..N_ :
                      y_target[n] = CartesianToMee(Evaluate(t[n]), MU_EARTH, singular_out)
C4_Witness ==
    /\ pc = "done"
    /\ Bbq /\ ~wrt_moon
    /\ N_ = 2
    /\ y_in[1] = OrbitRow(1)
    /\ y_target[1] # y_target[2]
    /\ y_target[2] = CartesianToMee(Evaluate(t[2]), MU_EARTH, singular_out)

\* C5: with "bbq_law" and wrt_moon, plotted row n is
\* to_mee(to_cartesian(y[n], MU_EARTH) - ephemeris(t[n]), MU_MOON) with 1.0
\* subtracted from element 0 only; order and length are kept and the evaluator
\* is called exactly once per time sample.  In the other modes the plotted
\* series is the input.
C5_ReferenceShift ==
    /\ (WellFormed /\ Bbq /\ wrt_moon /\ ShiftDone) =>
          /\ Len(y) = N_
          /\ \A n \in 1..N_ :
                /\ y[n][1] = Sub(MoonCentred(n)[1], Num(1))
                /\ \A k \in 2..6 : y[n][k] = MoonCentred(n)[k]
                /\ ephem_calls[n] = 1
    /\ ~(Bbq /\ wrt_moon) => y = y_in
C5_Witness ==
    /\ pc = "done"
    /\ WellFormed /\ Bbq /\ wrt_moon /\ shifted
    /\ N_ = 2
    /\ y_in[2] = OrbitRow(2)
    /\ y[2][1][1] = "sub"
    /\ y[2][2] = MoonCentred(2)[2]
    /\ ephem_calls = <<1, 1>>

\* C6 as stated: when the relative state is the zero vector at every sample,
\* the shifted first component is exactly 0 at every sample.
C6_AsStated ==
    (WellFormed /\ shifted /\ \A n \in 1..Len(rel_state) : rel_state[n] = ZeroRow) =>
       \A n \in 1..Len(y) : y[n][1] = Num(0)
\* C6 amended: where the relative state is the zero vector, the shifted first
\* component is what the converter yields for that (singular) state, less 1.0;
\* at any sample it is 0 exactly when the converted first element is 1.0.
C6_ShiftIdentity ==
    (WellFormed /\ shifted) =>
       \A n \in 1..Len(rel_state) :
          /\ rel_state[n] = ZeroRow => y[n][1] = Sub(singular_out, Num(1))
          /\ y[n][1] = Num(0) <=>
                CartesianToMee(rel_state[n], MU_MOON, singular_out)[1] = Num(1)
C6_Witness ==
    /\ pc = "done"
    /\ WellFormed /\ shifted
    /\ \A n \in 1..Len(rel_state) : rel_state[n] = ZeroRow
    /\ singular_out = Num(0)
    /\ y[1][1] = Num(-1)

\* C7: when the time array and the state array differ in length the call
\* fails before a target series or a shifted series exists, and never
\* completes.
C7_FailFast ==
    ~WellFormed =>
       /\ y_target = <<>>
       /\ ~shifted
       /\ pc # "done"

\* C10: the figure is titled Selenocentric exactly when the plotted series was
\* re-centred on the Moon, and Geocentric exactly when it is the input.
C10_FrameLabel ==
    pc = "done" =>
       /\ (titlestr = "Modified Equinoctial Elements (Selenocentric)") <=> shifted
       /\ (titlestr = "Modified Equinoctial Elements (Geocentric)") <=> ~shifted

====
